---------------------------- MODULE Spec2Model ----------------------------
(***************************************************************************)
(* Model of streaml.py: the typical-value resolver get_typical_values, the *)
(* normalize / denormalize pair, and the script main() that assembles the  *)
(* feature record handed to predict_price.                                 *)
(*                                                                         *)
(* Python floats are IEEE-754 doubles.  A double is modelled exactly as a   *)
(* sign and a fixed-point magnitude [s |-> sign, i |-> integer part,       *)
(* f |-> fraction], and every arithmetic operation rounds its exact        *)
(* result to MantBits significant bits, ties to even, as the hardware      *)
(* does.  NaN is the value with s = 0.                                     *)
(* Calendar values (Day_of_Week, Month) are written in the source with six *)
(* decimals and are modelled as integers in millionths.                    *)
(***************************************************************************)
EXTENDS Integers, Sequences, FiniteSets, TLC

VARIABLES
    data,               \* the dataset load_data returned
    pc,                 \* where the run of the script (or the caller) stands
    category,           \* main: the three selectboxes
    product_name,
    status,
    typical_values,     \* what get_typical_values returned or raised
    entered,            \* what the user typed into the two number inputs
    stock_quantity,     \* main: the two number inputs
    sales_volume,
    default_day_idx,    \* main: index of the calendar defaults
    default_month_idx,
    day_of_week,        \* main: the two calendar selectboxes
    month,
    features,           \* main: the assembled record
    pool,               \* what predict_price handed to the model
    codec               \* a normalize / denormalize round trip

vars == <<data, pc, category, product_name, status, typical_values, entered,
          stock_quantity, sales_volume, default_day_idx, default_month_idx,
          day_of_week, month, features, pool, codec>>

\* the variables of a run of main(), but pc
run == <<category, product_name, status, typical_values, entered,
         stock_quantity, sales_volume, default_day_idx, default_month_idx,
         day_of_week, month, features, pool>>

(***************************************************************************)
(* Bounds of the model.                                                    *)
(***************************************************************************)
MaxRows == 3
MainRows == 2
Grid == 8
Limbs == 4
LimbBits == 16

(***************************************************************************)
(* Floating point.  The fraction of a double is kept in Limbs limbs of     *)
(* LimbBits bits, most significant first; FracBits fraction bits are       *)
(* enough to hold every value the program computes here exactly.           *)
(***************************************************************************)
MantBits == 53
Base == 2 ^ LimbBits
FracBits == Limbs * LimbBits

RECURSIVE Repeat(_, _)
Repeat(v, n) == IF n = 0 THEN <<>> ELSE Append(Repeat(v, n - 1), v)

Zeros == Repeat(0, Limbs)
NaN == [s |-> 0, i |-> 0, f |-> Zeros]
IsNaN(x) == x.s = 0

\* float(k) for a small integer k
FromInt(k) == IF k < 0 THEN [s |-> -1, i |-> -k, f |-> Zeros]
              ELSE [s |-> 1, i |-> k, f |-> Zeros]

RECURSIVE BitLen(_)
BitLen(k) == IF k = 0 THEN 0 ELSE 1 + BitLen(k \div 2)

Min2(a, b) == IF a < b THEN a ELSE b
Max2(a, b) == IF a > b THEN a ELSE b

\* the fraction bit of x of weight 2^-p
Bit(x, p) ==
    LET l == (p - 1) \div LimbBits + 1
    IN  (x.f[l] \div (2 ^ (l * LimbBits - p))) % 2

\* the part of limb l of x that lies after fraction bit p
After(x, l, p) == x.f[l] % (2 ^ Min2(LimbBits, Max2(0, l * LimbBits - p)))

\* x + amt * 2^-(l * LimbBits)
RECURSIVE AddLimb(_, _, _)
AddLimb(x, l, amt) ==
    IF l = 0 THEN [x EXCEPT !.i = x.i + amt]
    ELSE LET t == x.f[l] + amt
         IN  AddLimb([x EXCEPT !.f[l] = t % Base],
                     l - 1, t \div Base)

\* x + 2^-pos
IncAt(x, pos) ==
    LET l == (pos + LimbBits - 1) \div LimbBits
    IN  AddLimb(x, l, 2 ^ (l * LimbBits - pos))

\* x with the fraction bits after position keep cleared in limbs 1..l
RECURSIVE Cut(_, _, _)
Cut(x, keep, l) ==
    IF l = 0 THEN x
    ELSE Cut([x EXCEPT !.f[l] = x.f[l] - After(x, l, keep)],
             keep, l - 1)

\* the double nearest to the exact value x (plus something below its last
\* bit when sticky), ties to even
Round(x, sticky) ==
    LET nz   == {l \in 1..Limbs : x.f[l] # 0}
        l0   == CHOOSE l \in nz : \A k \in nz : l <= k
        keep == IF x.i > 0 THEN MantBits - BitLen(x.i)
                ELSE IF nz = {} THEN FracBits
                ELSE l0 * LimbBits - BitLen(x.f[l0]) + MantBits
    IN  IF x.f = Zeros \/ \A l \in 1..Limbs : After(x, l, keep) = 0 THEN x
        ELSE LET rbit == Bit(x, keep + 1)
                 rest == sticky \/ \E l \in 1..Limbs : After(x, l, keep + 1) # 0
                 lsb  == IF keep = 0 THEN x.i % 2 ELSE Bit(x, keep)
                 cut  == Cut(x, keep, Limbs)
             IN  IF rbit = 1 /\ (rest \/ lsb = 1) THEN IncAt(cut, keep) ELSE cut

\* long division of the limbs f[l..] by d, r the remainder so far
RECURSIVE DivLimbs(_, _, _, _, _)
DivLimbs(f, d, l, r, acc) ==
    IF l > Limbs THEN [r |-> r, f |-> acc]
    ELSE LET t == r * Base + f[l]
         IN  DivLimbs(f, d, l + 1, t % d, Append(acc, t \div d))

\* x / d for a double x and an integer-valued double d > 0
FDiv(x, d) ==
    IF IsNaN(x) THEN NaN
    ELSE LET q == DivLimbs(x.f, d, 1, x.i % d, <<>>)
         IN  Round([s |-> x.s, i |-> x.i \div d, f |-> q.f], q.r # 0)

\* the limbs f[..l] times m, c the carry so far
RECURSIVE MulLimbs(_, _, _, _, _)
MulLimbs(f, m, l, c, acc) ==
    IF l = 0 THEN [c |-> c, f |-> acc]
    ELSE LET t == f[l] * m + c
         IN  MulLimbs(f, m, l - 1, t \div Base, <<t % Base>> \o acc)

\* x * m for a double x and an integer-valued double m >= 0
FMul(x, m) ==
    IF IsNaN(x) THEN NaN
    ELSE LET p == MulLimbs(x.f, m, Limbs, 0, <<>>)
         IN  Round([s |-> x.s, i |-> x.i * m + p.c, f |-> p.f], FALSE)

\* the limbs f[..l] plus g[..l], c the carry so far
RECURSIVE AddLimbs(_, _, _, _, _)
AddLimbs(f, g, l, c, acc) ==
    IF l = 0 THEN [c |-> c, f |-> acc]
    ELSE LET t == f[l] + g[l] + c
         IN  AddLimbs(f, g, l - 1, t \div Base, <<t % Base>> \o acc)

\* x + y for doubles x, y >= 0
FAdd(x, y) ==
    IF IsNaN(x) \/ IsNaN(y) THEN NaN
    ELSE LET p == AddLimbs(x.f, y.f, Limbs, 0, <<>>)
         IN  Round([s |-> 1, i |-> x.i + y.i + p.c, f |-> p.f], FALSE)

\* the double written n/d in decimal text
ToFloat(n, d) == FDiv(FromInt(n), d)

\* |x| < |y|
MagLess(x, y) ==
    \/ x.i < y.i
    \/ /\ x.i = y.i
       /\ \E l \in 1..Limbs :
              /\ x.f[l] < y.f[l]
              /\ \A k \in 1..(l - 1) : x.f[k] = y.f[k]

IsZero(x) == x.s # 0 /\ x.i = 0 /\ x.f = Zeros

\* x < y; false when either is NaN
FLess(x, y) ==
    /\ ~IsNaN(x) /\ ~IsNaN(y)
    /\ ~(IsZero(x) /\ IsZero(y))
    /\ \/ x.s < y.s
       \/ x.s = 1 /\ y.s = 1 /\ MagLess(x, y)
       \/ x.s = -1 /\ y.s = -1 /\ MagLess(y, x)

FLeq(x, y) == x = y \/ FLess(x, y)

(***************************************************************************)
(* Module constants of streaml.py.                                         *)
(***************************************************************************)
SALES_VOLUME_MIN == 14
SALES_VOLUME_MAX == 133
STOCK_QUANTITY_MIN == 7
STOCK_QUANTITY_MAX == 141

\* the weekdays and months tables of main(): quantized key |-> label (the
\* Russian labels are transliterated)
weekdays ==
    (0 :> "Ponedelnik") @@ (166667 :> "Vtornik") @@ (333333 :> "Sreda") @@
    (500000 :> "Chetverg") @@ (666667 :> "Pyatnitsa") @@ (833333 :> "Subbota") @@
    (1000000 :> "Voskresenye")

months ==
    (0 :> "Yanvar") @@ (90909 :> "Fevral") @@ (181818 :> "Mart") @@
    (272727 :> "Aprel") @@ (363636 :> "Mai") @@ (454545 :> "Iyun") @@
    (545455 :> "Iyul") @@ (636364 :> "Avgust") @@ (727273 :> "Sentyabr") @@
    (818182 :> "Oktyabr") @@ (909091 :> "Noyabr") @@ (1000000 :> "Dekabr")

(***************************************************************************)
(* The dataset train_mmsc.csv as load_data returns it: a sequence of rows. *)
(* A float cell holds a double; a calendar cell is an integer in           *)
(* millionths.                                                             *)
(***************************************************************************)
Cohorts == { <<"Cola", "Beverages">>, <<"Tea", "Beverages">>, <<"Cola", "Snacks">> }

Active ==
    [Status |-> "Active",
     Stock_Quantity |-> ToFloat(0, 1), Sales_Volume |-> ToFloat(1, 1),
     Reorder_Level |-> ToFloat(20, 1), Reorder_Quantity |-> ToFloat(50, 1),
     Inventory_Turnover_Rate |-> ToFloat(3, 2),
     Average_Price_Per_Category |-> ToFloat(10, 1),
     Average_Price_Per_Product_Name |-> ToFloat(12, 1),
     Price_to_Sales_Ratio |-> ToFloat(1, 4)]

Discontinued ==
    [Status |-> "Discontinued",
     Stock_Quantity |-> ToFloat(1, 1), Sales_Volume |-> ToFloat(1, 4),
     Reorder_Level |-> ToFloat(35, 1), Reorder_Quantity |-> ToFloat(80, 1),
     Inventory_Turnover_Rate |-> ToFloat(5, 2),
     Average_Price_Per_Category |-> ToFloat(11, 1),
     Average_Price_Per_Product_Name |-> ToFloat(9, 1),
     Price_to_Sales_Ratio |-> ToFloat(3, 4)]

ThuFeb == [Day_of_Week |-> 500000, Month |-> 90909]
WedNov == [Day_of_Week |-> 333333, Month |-> 920000]

Row(c, q, d) == [Product_Name |-> c[1], Category |-> c[2]] @@ q @@ d

\* the quantities and the calendar values a row may combine
Profiles == { <<Active, ThuFeb>>, <<Discontinued, WedNov>>, <<Active, WedNov>> }

RowSet == { Row(c, p[1], p[2]) : c \in Cohorts, p \in Profiles }

\* the rows the runs of main() draw their dataset from
MainRowSet ==
    { Row(<<"Cola", "Beverages">>, Active, ThuFeb),
      Row(<<"Cola", "Beverages">>, Discontinued, WedNov),
      Row(<<"Tea", "Beverages">>, Active, WedNov),
      Row(<<"Cola", "Snacks">>, Discontinued, WedNov) }

Datasets(rows, n) == UNION { [1..k -> rows] : k \in 0..n }

\* data[name] as a sequence of values
Column(rows, name) == [j \in 1..Len(rows) |-> rows[j][name]]

\* sorted(keys): the elements of a set of integers in ascending order
sorted(S) ==
    [r \in 1..Cardinality(S) |->
        CHOOSE v \in S : Cardinality({w \in S : w < v}) + 1 = r]

\* the values of data[name] in order of first appearance (Series.unique)
RECURSIVE unique(_)
unique(s) ==
    IF s = <<>> THEN <<>>
    ELSE LET h == unique(SubSeq(s, 1, Len(s) - 1))
             x == s[Len(s)]
         IN  IF \E j \in 1..Len(h) : h[j] = x THEN h ELSE Append(h, x)

(***************************************************************************)
(* pandas aggregates, as get_typical_values uses them.                     *)
(***************************************************************************)
\* the values of s in ascending order
RECURSIVE Sorted(_)
Sorted(s) ==
    IF s = <<>> THEN <<>>
    ELSE LET m == CHOOSE j \in 1..Len(s) :
                     /\ \A k \in 1..Len(s) : FLeq(s[j], s[k])
                     /\ \A k \in 1..(j - 1) : s[k] # s[j]
         IN  <<s[m]>> \o Sorted(SubSeq(s, 1, m - 1) \o SubSeq(s, m + 1, Len(s)))

\* Series.median(): NaN when empty, the middle value, or the mean of the two
\* middle values
median(s) ==
    LET n == Len(s)
        o == Sorted(s)
    IN  IF n = 0 THEN NaN
        ELSE IF n % 2 = 1 THEN o[(n + 1) \div 2]
        ELSE FDiv(FAdd(o[n \div 2], o[n \div 2 + 1]), 2)

RECURSIVE Sum(_)
Sum(s) == IF s = <<>> THEN FromInt(0) ELSE FAdd(Sum(SubSeq(s, 1, Len(s) - 1)), s[Len(s)])

\* Series.mean(): NaN when empty, else sum / count
mean(s) == IF Len(s) = 0 THEN NaN ELSE FDiv(Sum(s), Len(s))

\* a mode that lists the most frequent values in order of first appearance
mode_first_seen(s) ==
    LET vals     == {s[j] : j \in 1..Len(s)}
        count(v) == Cardinality({j \in 1..Len(s) : s[j] = v})
        tops     == {v \in vals : \A w \in vals : count(w) <= count(v)}
        first(v) == CHOOSE j \in 1..Len(s) : s[j] = v /\ \A k \in 1..(j - 1) : s[k] # v
        rank(v)  == Cardinality({w \in tops : first(w) < first(v)}) + 1
    IN  [r \in 1..Cardinality(tops) |-> CHOOSE v \in tops : rank(v) = r]

\* Series.mode(): the most frequent values in ascending order
mode(s) ==
    LET vals     == {s[j] : j \in 1..Len(s)}
        count(v) == Cardinality({j \in 1..Len(s) : s[j] = v})
        tops     == {v \in vals : \A w \in vals : count(w) <= count(v)}
        rank(v)  == Cardinality({w \in tops : w < v}) + 1
    IN  [r \in 1..Cardinality(tops) |-> CHOOSE v \in tops : rank(v) = r]

(***************************************************************************)
(* get_typical_values                                                      *)
(***************************************************************************)
\* a denormalize that rounds to the nearest integer instead of truncating
denormalize_round(value, min_val, max_val) ==
    LET y == FAdd(FAdd(FMul(value, max_val - min_val), FromInt(min_val)),
                  ToFloat(1, 2))
    IN  IF IsNaN(y) THEN [exc |-> "ValueError", val |-> 0]
        ELSE [exc |-> "None", val |-> y.s * y.i]

\* a denormalize that scales by max_val instead of max_val - min_val
denormalize_scale(value, min_val, max_val) ==
    LET y == FAdd(FMul(value, max_val), FromInt(min_val))
    IN  IF IsNaN(y) THEN [exc |-> "ValueError", val |-> 0]
        ELSE [exc |-> "None", val |-> y.s * y.i]

\* int(value * (max_val - min_val) + min_val); int(NaN) raises ValueError
denormalize(value, min_val, max_val) ==
    LET y == FAdd(FMul(value, max_val - min_val), FromInt(min_val))
    IN  IF IsNaN(y) THEN [exc |-> "ValueError", val |-> 0]
        ELSE [exc |-> "None", val |-> y.s * y.i]

\* a product_data that falls back to the whole dataset
product_data_all(rows, name, cat) ==
    LET both(r) == r.Product_Name = name /\ r.Category = cat
        exact   == SelectSeq(rows, both)
    IN  IF Len(exact) = 0 THEN rows ELSE exact

\* the rows get_typical_values aggregates over
product_data(rows, name, cat) ==
    LET both(r)  == r.Product_Name = name /\ r.Category = cat
        incat(r) == r.Category = cat
        exact    == SelectSeq(rows, both)
    IN  IF Len(exact) = 0 THEN SelectSeq(rows, incat) ELSE exact

\* the typical_values dict built from the rows pd; the entries are
\* evaluated in order and the first exception propagates
typical_values_of(pd) ==
    LET stock == denormalize(median(Column(pd, "Stock_Quantity")),
                             STOCK_QUANTITY_MIN, STOCK_QUANTITY_MAX)
        sales == denormalize(median(Column(pd, "Sales_Volume")),
                             SALES_VOLUME_MIN, SALES_VOLUME_MAX)
    IN  IF stock.exc # "None" THEN [exc |-> stock.exc]
        ELSE IF sales.exc # "None" THEN [exc |-> sales.exc]
        ELSE IF Len(pd) = 0 THEN [exc |-> "KeyError"]
        ELSE [exc |-> "None",
              val |-> [Stock_Quantity |-> stock.val,
                       Sales_Volume |-> sales.val,
                       Reorder_Level |-> median(Column(pd, "Reorder_Level")),
                       Reorder_Quantity |-> median(Column(pd, "Reorder_Quantity")),
                       Inventory_Turnover_Rate |->
                           mean(Column(pd, "Inventory_Turnover_Rate")),
                       Average_Price_Per_Category |->
                           mean(Column(pd, "Average_Price_Per_Category")),
                       Average_Price_Per_Product_Name |->
                           mean(Column(pd, "Average_Price_Per_Product_Name")),
                       Price_to_Sales_Ratio |-> mean(Column(pd, "Price_to_Sales_Ratio")),
                       Day_of_Week |-> mode(Column(pd, "Day_of_Week"))[1],
                       Month |-> mode(Column(pd, "Month"))[1]]]

\* a get_typical_values that answers an empty cohort with default entries
get_typical_values_lenient(rows, name, cat) ==
    LET pd == product_data(rows, name, cat)
    IN  IF Len(pd) # 0 THEN typical_values_of(pd)
        ELSE [exc |-> "None",
              val |-> [Stock_Quantity |-> STOCK_QUANTITY_MIN,
                       Sales_Volume |-> SALES_VOLUME_MIN,
                       Reorder_Level |-> NaN, Reorder_Quantity |-> NaN,
                       Inventory_Turnover_Rate |-> NaN,
                       Average_Price_Per_Category |-> NaN,
                       Average_Price_Per_Product_Name |-> NaN,
                       Price_to_Sales_Ratio |-> NaN,
                       Day_of_Week |-> 0, Month |-> 0]]

get_typical_values(rows, name, cat) ==
    typical_values_of(product_data(rows, name, cat))

(***************************************************************************)
(* State shared by the specifications.                                     *)
(***************************************************************************)
NoValues == [exc |-> "Unset"]
NoEntry == [stock |-> -1, sales |-> -1]
NoCodec == [rng |-> "None", path |-> <<>>,
            n0 |-> 0, v0 |-> FromInt(0), n |-> 0, v |-> FromInt(0)]

Idle ==
    /\ category = "None"
    /\ product_name = "None"
    /\ status = "None"
    /\ typical_values = NoValues
    /\ entered = NoEntry
    /\ stock_quantity = -1
    /\ sales_volume = -1
    /\ default_day_idx = -1
    /\ default_month_idx = -1
    /\ day_of_week = -1
    /\ month = -1
    /\ features = <<>>
    /\ pool = <<>>
    /\ codec = NoCodec

(***************************************************************************)
(* SpecResolve: get_typical_values called with arbitrary arguments on a    *)
(* loaded dataset.                                                         *)
(***************************************************************************)
\* the (product_name, category) arguments of the calls: a pair of the
\* dataset, a product sold in another category only, an unknown category
CallArgs == { <<"Cola", "Beverages">>, <<"Tea", "Beverages">>,
              <<"Tea", "Snacks">>, <<"Cola", "Dairy">> }

InitResolve ==
    /\ data \in Datasets(RowSet, MaxRows)
    /\ pc = "caller"
    /\ Idle

Resolve ==
    /\ pc = "caller"
    /\ \E args \in CallArgs :
          /\ product_name' = args[1]
          /\ category' = args[2]
          /\ typical_values' = get_typical_values(data, args[1], args[2])
    /\ pc' = "resolved"
    /\ UNCHANGED <<data, status, entered, stock_quantity, sales_volume,
                   default_day_idx, default_month_idx, day_of_week, month,
                   features, pool, codec>>

\* the caller drops the result; the dataset stays loaded
Return ==
    /\ pc = "resolved"
    /\ pc' = "caller"
    /\ product_name' = "None"
    /\ category' = "None"
    /\ typical_values' = NoValues
    /\ UNCHANGED <<data, status, entered, stock_quantity, sales_volume,
                   default_day_idx, default_month_idx, day_of_week, month,
                   features, pool, codec>>

NextResolve == Resolve \/ Return

SpecResolve == InitResolve /\ [][NextResolve]_vars

(***************************************************************************)
(* main(): one run of the script.  Streamlit widgets return the value the  *)
(* user has chosen, or their default.                                      *)
(***************************************************************************)
\* values a user may type into the two number inputs
StockInputs == {STOCK_QUANTITY_MIN - 1, STOCK_QUANTITY_MIN,
                STOCK_QUANTITY_MAX, STOCK_QUANTITY_MAX + 1}
SalesInputs == {SALES_VOLUME_MIN - 1, SALES_VOLUME_MIN,
                SALES_VOLUME_MAX, SALES_VOLUME_MAX + 1}

Abs(a) == IF a < 0 THEN -a ELSE a

\* a default index that minimises keys[i] - typical without the abs
default_idx_signed(keys, typical) ==
    CHOOSE i \in 0..(Len(keys) - 1) :
        /\ \A k \in 0..(Len(keys) - 1) : keys[i + 1] - typical <= keys[k + 1] - typical
        /\ \A k \in 0..(i - 1) : keys[k + 1] - typical # keys[i + 1] - typical

\* min(range(len(keys)), key=lambda i: abs(keys[i] - typical)): the first
\* index (from 0) of a key nearest to typical
default_idx(keys, typical) ==
    CHOOSE i \in 0..(Len(keys) - 1) :
        /\ \A k \in 0..(Len(keys) - 1) :
               Abs(keys[i + 1] - typical) <= Abs(keys[k + 1] - typical)
        /\ \A k \in 0..(i - 1) :
               Abs(keys[k + 1] - typical) # Abs(keys[i + 1] - typical)

\* a normalize that divides by max_val
normalize_scale(value, min_val, max_val) ==
    FDiv(FromInt(value - min_val), max_val)

\* a normalize that does not subtract min_val
normalize_unshifted(value, min_val, max_val) ==
    FDiv(FromInt(value), max_val - min_val)

\* (value - min_val) / (max_val - min_val)
normalize(value, min_val, max_val) ==
    FDiv(FromInt(value - min_val), max_val - min_val)

\* st.selectbox(label, options): any option, None when there is none
selectbox(options) ==
    IF Len(options) = 0 THEN {"None"} ELSE {options[j] : j \in 1..Len(options)}

\* a number_input that does not enforce max_value
number_input_open(value, min_value, max_value, typed) ==
    IF typed # -1 /\ min_value <= typed THEN typed ELSE value

\* st.number_input(label, value, min_value, max_value, step=1): the user
\* keeps the default (typed = -1) or types an integer; an integer outside
\* [min_value, max_value] is not committed and the widget keeps its value
number_input(value, min_value, max_value, typed) ==
    IF typed # -1 /\ min_value <= typed /\ typed <= max_value THEN typed
    ELSE value

Init ==
    /\ data \in Datasets(MainRowSet, MainRows)
    /\ pc = "category"
    /\ Idle

SelectCategory ==
    /\ pc = "category"
    /\ category' \in selectbox(unique(Column(data, "Category")))
    /\ pc' = "product"
    /\ UNCHANGED <<data, product_name, status, typical_values, entered,
                   stock_quantity, sales_volume, default_day_idx,
                   default_month_idx, day_of_week, month, features, pool,
                   codec>>

SelectProduct ==
    /\ pc = "product"
    /\ LET incat(r) == r.Category = category
       IN  product_name' \in
               selectbox(unique(Column(SelectSeq(data, incat), "Product_Name")))
    /\ pc' = "status"
    /\ UNCHANGED <<data, category, status, typical_values, entered,
                   stock_quantity, sales_volume, default_day_idx,
                   default_month_idx, day_of_week, month, features, pool,
                   codec>>

SelectStatus ==
    /\ pc = "status"
    /\ status' \in selectbox(unique(Column(data, "Status")))
    /\ pc' = "typical"
    /\ UNCHANGED <<data, category, product_name, typical_values, entered,
                   stock_quantity, sales_volume, default_day_idx,
                   default_month_idx, day_of_week, month, features, pool,
                   codec>>

\* typical_values = get_typical_values(data, product_name, category); an
\* exception ends the run
TypicalValues ==
    /\ pc = "typical"
    /\ typical_values' = get_typical_values(data, product_name, category)
    /\ pc' = IF typical_values'.exc = "None" THEN "stock" ELSE "raised"
    /\ UNCHANGED <<data, category, product_name, status, entered,
                   stock_quantity, sales_volume, default_day_idx,
                   default_month_idx, day_of_week, month, features, pool,
                   codec>>

\* number_input raises when its default lies outside its bounds
StockInput ==
    /\ pc = "stock"
    /\ LET value == typical_values.val.Stock_Quantity
       IN  IF value < STOCK_QUANTITY_MIN \/ value > STOCK_QUANTITY_MAX
           THEN /\ pc' = "raised"
                /\ UNCHANGED <<entered, stock_quantity>>
           ELSE \E typed \in StockInputs \cup {-1} :
                   /\ entered' = [entered EXCEPT !.stock = typed]
                   /\ stock_quantity' = number_input(value, STOCK_QUANTITY_MIN,
                                                     STOCK_QUANTITY_MAX, typed)
                   /\ pc' = "sales"
    /\ UNCHANGED <<data, category, product_name, status, typical_values,
                   sales_volume, default_day_idx, default_month_idx,
                   day_of_week, month, features, pool, codec>>

SalesInput ==
    /\ pc = "sales"
    /\ LET value == typical_values.val.Sales_Volume
       IN  IF value < SALES_VOLUME_MIN \/ value > SALES_VOLUME_MAX
           THEN /\ pc' = "raised"
                /\ UNCHANGED <<entered, sales_volume>>
           ELSE \E typed \in SalesInputs \cup {-1} :
                   /\ entered' = [entered EXCEPT !.sales = typed]
                   /\ sales_volume' = number_input(value, SALES_VOLUME_MIN,
                                                   SALES_VOLUME_MAX, typed)
                   /\ pc' = "day"
    /\ UNCHANGED <<data, category, product_name, status, typical_values,
                   stock_quantity, default_day_idx, default_month_idx,
                   day_of_week, month, features, pool, codec>>

\* the option shown first, or the one the user picks instead
DayPicks == {1000000}
MonthPicks == {0}

SelectDay ==
    /\ pc = "day"
    /\ LET day_keys == sorted(DOMAIN weekdays)
       IN  /\ default_day_idx' = default_idx(day_keys, typical_values.val.Day_of_Week)
           /\ day_of_week' \in {day_keys[default_day_idx' + 1]} \cup DayPicks
    /\ pc' = "month"
    /\ UNCHANGED <<data, category, product_name, status, typical_values,
                   entered, stock_quantity, sales_volume, default_month_idx,
                   month, features, pool, codec>>

SelectMonth ==
    /\ pc = "month"
    /\ LET month_keys == sorted(DOMAIN months)
       IN  /\ default_month_idx' = default_idx(month_keys, typical_values.val.Month)
           /\ month' \in {month_keys[default_month_idx' + 1]} \cup MonthPicks
    /\ pc' = "features"
    /\ UNCHANGED <<data, category, product_name, status, typical_values,
                   entered, stock_quantity, sales_volume, default_day_idx,
                   day_of_week, features, pool, codec>>

\* a record with the two reorder entries exchanged
features_frame_swapped ==
    [Product_Name |-> product_name,
     Stock_Quantity |->
         normalize(stock_quantity, STOCK_QUANTITY_MIN, STOCK_QUANTITY_MAX),
     Reorder_Level |-> typical_values.val.Reorder_Quantity,
     Reorder_Quantity |-> typical_values.val.Reorder_Level,
     Sales_Volume |->
         normalize(sales_volume, SALES_VOLUME_MIN, SALES_VOLUME_MAX),
     Inventory_Turnover_Rate |-> typical_values.val.Inventory_Turnover_Rate,
     Status |-> status,
     Category |-> category,
     Average_Price_Per_Category |->
         typical_values.val.Average_Price_Per_Category,
     Average_Price_Per_Product_Name |->
         typical_values.val.Average_Price_Per_Product_Name,
     Price_to_Sales_Ratio |-> typical_values.val.Price_to_Sales_Ratio,
     Day_of_Week |-> day_of_week,
     Month |-> month]

\* pd.DataFrame({...}): the one-row frame built from the inputs
features_frame ==
    [Product_Name |-> product_name,
     Stock_Quantity |->
         normalize(stock_quantity, STOCK_QUANTITY_MIN, STOCK_QUANTITY_MAX),
     Reorder_Level |-> typical_values.val.Reorder_Level,
     Reorder_Quantity |-> typical_values.val.Reorder_Quantity,
     Sales_Volume |->
         normalize(sales_volume, SALES_VOLUME_MIN, SALES_VOLUME_MAX),
     Inventory_Turnover_Rate |-> typical_values.val.Inventory_Turnover_Rate,
     Status |-> status,
     Category |-> category,
     Average_Price_Per_Category |->
         typical_values.val.Average_Price_Per_Category,
     Average_Price_Per_Product_Name |->
         typical_values.val.Average_Price_Per_Product_Name,
     Price_to_Sales_Ratio |-> typical_values.val.Price_to_Sales_Ratio,
     Day_of_Week |-> day_of_week,
     Month |-> month]

\* features = pd.DataFrame({...})
Assemble ==
    /\ pc = "features"
    /\ features' = features_frame
    /\ pc' = "button"
    /\ UNCHANGED <<data, category, product_name, status, typical_values,
                   entered, stock_quantity, sales_volume, default_day_idx,
                   default_month_idx, day_of_week, month, pool, codec>>

\* predict_price(model, features): the Pool handed to model.predict
predict_price(feats) ==
    [features |-> feats, cat_features |-> <<"Product_Name", "Status", "Category">>]

\* the button is pressed: predict_price is called
Predict ==
    /\ pc = "button"
    /\ pool' = predict_price(features)
    /\ pc' = "done"
    /\ UNCHANGED <<data, category, product_name, status, typical_values,
                   entered, stock_quantity, sales_volume, default_day_idx,
                   default_month_idx, day_of_week, month, features, codec>>

\* the button is not pressed: the run ends without a prediction
NoPredict ==
    /\ pc = "button"
    /\ pc' = "done"
    /\ UNCHANGED <<data, category, product_name, status, typical_values,
                   entered, stock_quantity, sales_volume, default_day_idx,
                   default_month_idx, day_of_week, month, features, pool,
                   codec>>

\* any interaction reruns the script; the dataset is cached
Rerun ==
    /\ pc \in {"done", "raised"}
    /\ pc' = "category"
    /\ category' = "None"
    /\ product_name' = "None"
    /\ status' = "None"
    /\ typical_values' = NoValues
    /\ entered' = NoEntry
    /\ stock_quantity' = -1
    /\ sales_volume' = -1
    /\ default_day_idx' = -1
    /\ default_month_idx' = -1
    /\ day_of_week' = -1
    /\ month' = -1
    /\ features' = <<>>
    /\ pool' = <<>>
    /\ UNCHANGED <<data, codec>>

Next ==
    \/ SelectCategory
    \/ SelectProduct
    \/ SelectStatus
    \/ TypicalValues
    \/ StockInput
    \/ SalesInput
    \/ SelectDay
    \/ SelectMonth
    \/ Assemble
    \/ Predict
    \/ NoPredict
    \/ Rerun

Spec == Init /\ [][Next]_vars

(***************************************************************************)
(* SpecCodec: normalize and denormalize applied one after the other, in    *)
(* either order, to a native integer or to a normalized double.            *)
(***************************************************************************)
Ranges == {"Stock_Quantity", "Sales_Volume"}
min_of(rng) == IF rng = "Stock_Quantity" THEN STOCK_QUANTITY_MIN ELSE SALES_VOLUME_MIN
max_of(rng) == IF rng = "Stock_Quantity" THEN STOCK_QUANTITY_MAX ELSE SALES_VOLUME_MAX

\* normalized inputs: the multiples of 1/Grid in [0,1], and the doubles
\* normalize yields for the native integers of the range
NormalizedInputs(rng) ==
    {ToFloat(k, Grid) : k \in 0..Grid}
        \cup {normalize(x, min_of(rng), max_of(rng)) : x \in min_of(rng)..max_of(rng)}

InitCodec ==
    /\ data = <<>>
    /\ pc = "codec"
    /\ Idle

PickNative ==
    /\ codec.path = <<>>
    /\ \E rng \in Ranges :
          \E x \in min_of(rng)..max_of(rng) :
              codec' = [rng |-> rng, path |-> <<"native">>,
                        n0 |-> x, v0 |-> FromInt(0), n |-> x, v |-> FromInt(0)]
    /\ UNCHANGED <<data, pc, run>>

PickNormalized ==
    /\ codec.path = <<>>
    /\ \E rng \in Ranges :
          \E x \in NormalizedInputs(rng) :
              codec' = [rng |-> rng, path |-> <<"normalized">>,
                        n0 |-> 0, v0 |-> x, n |-> 0, v |-> x]
    /\ UNCHANGED <<data, pc, run>>

\* the value in hand is native: normalize it
Normalize ==
    /\ codec.path \in {<<"native">>, <<"normalized", "denormalize">>}
    /\ codec' = [codec EXCEPT
                   !.v = normalize(codec.n, min_of(codec.rng), max_of(codec.rng)),
                   !.path = Append(codec.path, "normalize")]
    /\ UNCHANGED <<data, pc, run>>

\* the value in hand is normalized: denormalize it
Denormalize ==
    /\ codec.path \in {<<"normalized">>, <<"native", "normalize">>}
    /\ codec' = [codec EXCEPT
                   !.n = denormalize(codec.v, min_of(codec.rng), max_of(codec.rng)).val,
                   !.path = Append(codec.path, "denormalize")]
    /\ UNCHANGED <<data, pc, run>>

Forget ==
    /\ Len(codec.path) = 3
    /\ codec' = NoCodec
    /\ UNCHANGED <<data, pc, run>>

NextCodec == PickNative \/ PickNormalized \/ Normalize \/ Denormalize \/ Forget

SpecCodec == InitCodec /\ [][NextCodec]_vars

(***************************************************************************)
(* What the claims speak of, stated from the dataset alone.                *)
(***************************************************************************)
\* the rows matching both arguments of the call, and those of its category
Matching == {j \in 1..Len(data) :
                data[j].Product_Name = product_name /\ data[j].Category = category}
InCategory == {j \in 1..Len(data) : data[j].Category = category}

\* the cohort: the matching rows when there are any, else the category's
CohortRows ==
    LET idx     == IF Matching # {} THEN Matching ELSE InCategory
        RECURSIVE upto(_)
        upto(j) == IF j = 0 THEN <<>>
                   ELSE IF j \in idx THEN Append(upto(j - 1), data[j])
                   ELSE upto(j - 1)
    IN  upto(Len(data))

\* a double that is a multiple of 1/4, counted in quarters
Quarters(x) == 4 * x.i + x.f[1] \div (Base \div 4)

\* twice the median of a non-empty sequence of integers
TwiceMedian(s) ==
    LET n      == Len(s)
        pos(j) == Cardinality({k \in 1..n : s[k] < s[j] \/ (s[k] = s[j] /\ k < j)}) + 1
        at(r)  == s[CHOOSE j \in 1..n : pos(j) = r]
    IN  IF n % 2 = 1 THEN 2 * at((n + 1) \div 2) ELSE at(n \div 2) + at(n \div 2 + 1)

\* the cohort median of a normalized column, in eighths
MedianEighths(name) ==
    LET rows == CohortRows
    IN  TwiceMedian([j \in 1..Len(rows) |-> Quarters(rows[j][name])])

\* trunc(m * (hi - lo) + lo) for the median m = m8 / 8
TruncDenormalized(m8, lo, hi) == (m8 * (hi - lo)) \div 8 + lo

Resolved == pc = "resolved" /\ typical_values.exc = "None"

\* the most frequent values of a cohort column, the one seen first, the least
Tops(name) ==
    LET col      == Column(CohortRows, name)
        vals     == {col[j] : j \in 1..Len(col)}
        count(v) == Cardinality({j \in 1..Len(col) : col[j] = v})
    IN  {v \in vals : \A w \in vals : count(w) <= count(v)}

FirstSeen(name) ==
    LET col  == Column(CohortRows, name)
        tops == Tops(name)
    IN  col[CHOOSE j \in 1..Len(col) :
                col[j] \in tops /\ \A k \in 1..(j - 1) : col[k] \notin tops]

Least(name) ==
    LET tops == Tops(name)
    IN  CHOOSE v \in tops : \A w \in tops : v <= w

TenKeys == {"Stock_Quantity", "Sales_Volume", "Reorder_Level", "Reorder_Quantity",
            "Inventory_Turnover_Rate", "Average_Price_Per_Category",
            "Average_Price_Per_Product_Name", "Price_to_Sales_Ratio",
            "Day_of_Week", "Month"}

(***************************************************************************)
(* Claims about get_typical_values, checked under SpecResolve.             *)
(***************************************************************************)
\* C1 as stated: for a non-empty cohort Stock_Quantity is
\* trunc(m_stock * (133 - 14) + 14) and Sales_Volume is
\* trunc(m_sales * (141 - 7) + 7), m the cohort medians.
C1_AsStated ==
    Resolved =>
        /\ typical_values.val.Stock_Quantity =
               TruncDenormalized(MedianEighths("Stock_Quantity"), 14, 133)
        /\ typical_values.val.Sales_Volume =
               TruncDenormalized(MedianEighths("Sales_Volume"), 7, 141)

\* C1 amended: for a non-empty cohort Stock_Quantity is
\* trunc(m_stock * (141 - 7) + 7) and Sales_Volume is
\* trunc(m_sales * (133 - 14) + 14); a Stock_Quantity median of 0.5 gives 74.
C1_TypicalQuantities ==
    Resolved =>
        /\ typical_values.val.Stock_Quantity =
               TruncDenormalized(MedianEighths("Stock_Quantity"), 7, 141)
        /\ typical_values.val.Sales_Volume =
               TruncDenormalized(MedianEighths("Sales_Volume"), 14, 133)
        /\ MedianEighths("Stock_Quantity") = 4 => typical_values.val.Stock_Quantity = 74

\* a cohort of several rows whose Stock_Quantity median is 0.5 and whose
\* denormalized Sales_Volume median has a fraction to truncate
C1_Witness ==
    /\ Resolved
    /\ Len(CohortRows) > 1
    /\ MedianEighths("Stock_Quantity") = 4
    /\ typical_values.val.Stock_Quantity = 74
    /\ (MedianEighths("Sales_Volume") * (133 - 14)) % 8 # 0

\* C2 as stated: with a matching row, all 10 keys are present, Stock_Quantity
\* is in [14,133] and Sales_Volume in [7,141].
C2_AsStated ==
    (pc = "resolved" /\ Matching # {}) =>
        /\ typical_values.exc = "None"
        /\ DOMAIN typical_values.val = TenKeys
        /\ typical_values.val.Stock_Quantity \in 14..133
        /\ typical_values.val.Sales_Volume \in 7..141

\* C2 amended: with a matching row (and normalized values in [0,1]), all 10
\* keys are present and not NaN, Stock_Quantity is an integer in [7,141] and
\* Sales_Volume an integer in [14,133].
C2_KeysAndBounds ==
    (pc = "resolved" /\ Matching # {}) =>
        /\ typical_values.exc = "None"
        /\ DOMAIN typical_values.val = TenKeys
        /\ typical_values.val.Stock_Quantity \in 7..141
        /\ typical_values.val.Sales_Volume \in 14..133
        /\ \A k \in {"Reorder_Level", "Reorder_Quantity", "Inventory_Turnover_Rate",
                     "Average_Price_Per_Category", "Average_Price_Per_Product_Name",
                     "Price_to_Sales_Ratio"} : ~IsNaN(typical_values.val[k])
        /\ typical_values.val.Day_of_Week \in 0..1000000
        /\ typical_values.val.Month \in 0..1000000

\* a matching cohort whose typical values sit on a bound of each range
C2_Witness ==
    /\ pc = "resolved"
    /\ Matching # {}
    /\ typical_values.exc = "None"
    /\ typical_values.val.Stock_Quantity = 7
    /\ typical_values.val.Sales_Volume = 133

\* C3: the result is the aggregate of exactly the rows matching both
\* arguments when there are any, else of exactly the rows of the category;
\* it is determined by the dataset and the arguments, so a repeated call on
\* the unchanged dataset returns the same result.
C3_Cohort ==
    pc = "resolved" => typical_values = typical_values_of(CohortRows)

\* a fallback: no row matches both, some rows of the category, and rows of
\* another category in the dataset
C3_Witness ==
    /\ Resolved
    /\ Matching = {}
    /\ InCategory # {}
    /\ Cardinality(InCategory) < Len(data)
    /\ typical_values # typical_values_of(data)

\* C7 as stated: among tied most frequent Day_of_Week (Month) values the one
\* first in row order is returned.
C7_AsStated ==
    Resolved =>
        /\ typical_values.val.Day_of_Week = FirstSeen("Day_of_Week")
        /\ typical_values.val.Month = FirstSeen("Month")

\* C7 amended: among tied most frequent Day_of_Week (Month) values the
\* smallest is returned, whatever the row order.
C7_LeastMode ==
    Resolved =>
        /\ typical_values.val.Day_of_Week = Least("Day_of_Week")
        /\ typical_values.val.Month = Least("Month")

\* a tie whose first value in row order is not the smallest
C7_Witness ==
    /\ Resolved
    /\ Cardinality(Tops("Day_of_Week")) > 1
    /\ FirstSeen("Day_of_Week") # Least("Day_of_Week")
    /\ typical_values.val.Day_of_Week = Least("Day_of_Week")


(***************************************************************************)
(* Claims about a run of main(), checked under Spec.                       *)
(***************************************************************************)
\* where a run stands once the statement named has been executed
AfterTypical == {"stock", "sales", "day", "month", "features", "button", "done", "raised"}
AfterStock == {"sales", "day", "month", "features", "button", "done"}
AfterSales == {"day", "month", "features", "button", "done"}
AfterDay == {"month", "features", "button", "done"}
AfterMonth == {"features", "button", "done"}
Assembled == {"button", "done"}

\* C4: when no row of the dataset matches the requested category,
\* get_typical_values ends in an error instead of returning a mapping, the
\* run stops there, no record is assembled and predict_price is not called.
C4_EmptyCohort ==
    (pc \in AfterTypical /\ InCategory = {}) =>
        /\ typical_values.exc # "None"
        /\ pc = "raised"
        /\ features = <<>>
        /\ pool = <<>>

\* a run on a dataset without rows that has called get_typical_values
C4_Witness ==
    /\ pc = "raised"
    /\ InCategory = {}
    /\ typical_values.exc = "ValueError"
    /\ pool = <<>>

\* C5 as stated: a typed stock quantity outside [14,133] or sales volume
\* outside [7,141] never reaches normalize, and every integer inside those
\* bounds is accepted.
C5_AsStated ==
    /\ pc \in AfterStock =>
          /\ stock_quantity \in 14..133
          /\ entered.stock \in 14..133 => stock_quantity = entered.stock
    /\ pc \in AfterSales =>
          /\ sales_volume \in 7..141
          /\ entered.sales \in 7..141 => sales_volume = entered.sales

\* C5 amended: a typed stock quantity outside [7,141] or sales volume
\* outside [14,133] is not taken: the value handed to normalize and the
\* record given to predict_price are always made from a value inside those
\* bounds, and every integer typed inside those bounds is accepted.
C5_InputBounds ==
    /\ pc \in AfterStock =>
          /\ stock_quantity \in 7..141
          /\ entered.stock \in 7..141 => stock_quantity = entered.stock
    /\ pc \in AfterSales =>
          /\ sales_volume \in 14..133
          /\ entered.sales \in 14..133 => sales_volume = entered.sales
    /\ pc \in Assembled =>
          /\ features.Stock_Quantity = normalize(stock_quantity, 7, 141)
          /\ features.Sales_Volume = normalize(sales_volume, 14, 133)
    /\ pool # <<>> => pool.features = features

\* a prediction made after a stock quantity above its bound was typed and
\* the least sales volume was typed
C5_Witness ==
    /\ pc = "done"
    /\ pool # <<>>
    /\ entered.stock = 142
    /\ stock_quantity # 142
    /\ entered.sales = 14
    /\ sales_volume = 14

\* C8: when the typical Day_of_Week (Month) is one of the keys of the
\* weekdays (months) table, the default index is the index of that key in
\* the sorted keys; 0.333333 selects index 2, "Sreda".
C8_CalendarDefault ==
    /\ (pc \in AfterDay /\ typical_values.val.Day_of_Week \in DOMAIN weekdays) =>
          /\ sorted(DOMAIN weekdays)[default_day_idx + 1] =
                 typical_values.val.Day_of_Week
          /\ typical_values.val.Day_of_Week = 333333 =>
                 /\ default_day_idx = 2
                 /\ weekdays[sorted(DOMAIN weekdays)[default_day_idx + 1]] = "Sreda"
    /\ (pc \in AfterMonth /\ typical_values.val.Month \in DOMAIN months) =>
          sorted(DOMAIN months)[default_month_idx + 1] = typical_values.val.Month

\* a run whose typical day is 0.333333 and whose typical month is a key
C8_Witness ==
    /\ pc \in AfterMonth
    /\ typical_values.val.Day_of_Week = 333333
    /\ default_day_idx = 2
    /\ typical_values.val.Month = 90909
    /\ default_month_idx = 1

Thirteen == {"Product_Name", "Stock_Quantity", "Reorder_Level", "Reorder_Quantity",
             "Sales_Volume", "Inventory_Turnover_Rate", "Status", "Category",
             "Average_Price_Per_Category", "Average_Price_Per_Product_Name",
             "Price_to_Sales_Ratio", "Day_of_Week", "Month"}

\* the columns copied from typical_values
Copied == {"Reorder_Level", "Reorder_Quantity", "Inventory_Turnover_Rate",
           "Average_Price_Per_Category", "Average_Price_Per_Product_Name",
           "Price_to_Sales_Ratio"}

\* the strings a cell of the dataset holds
Strings == UNION { {r.Product_Name, r.Category, r.Status} : r \in MainRowSet }

\* C9: the assembled record has exactly the 13 fields; Product_Name, Status
\* and Category are the selected strings and the only columns declared
\* categorical; the six copied columns equal the typical_values entries;
\* Day_of_Week and Month are the selected keys; typical_values is still
\* what get_typical_values returned.
C9_FeatureRecord ==
    /\ pc \in Assembled =>
          /\ DOMAIN features = Thirteen
          /\ features.Product_Name = product_name /\ product_name \in Strings
          /\ features.Status = status /\ status \in Strings
          /\ features.Category = category /\ category \in Strings
          /\ \A c \in Copied :
                 /\ features[c] = typical_values.val[c]
                 /\ DOMAIN features[c] = {"s", "i", "f"}
          /\ DOMAIN features.Stock_Quantity = {"s", "i", "f"}
          /\ DOMAIN features.Sales_Volume = {"s", "i", "f"}
          /\ features.Day_of_Week = day_of_week /\ day_of_week \in DOMAIN weekdays
          /\ features.Month = month /\ month \in DOMAIN months
          /\ typical_values = get_typical_values(data, product_name, category)
    /\ pool # <<>> =>
          /\ pool.features = features
          /\ {pool.cat_features[j] : j \in 1..Len(pool.cat_features)} =
                 {"Product_Name", "Status", "Category"}

\* a prediction made from a cohort whose two reorder medians differ
C9_Witness ==
    /\ pc = "done"
    /\ pool # <<>>
    /\ pool.features.Reorder_Level # pool.features.Reorder_Quantity
    /\ pool.features.Day_of_Week = 1000000

\* C10: in every assembled record and in every record given to predict_price
\* Stock_Quantity and Sales_Volume lie in [0,1]; the typical value offered as
\* the default of a number input is always inside the input's bounds.
C10_UnitInterval ==
    /\ pc \in Assembled =>
          /\ FLeq(FromInt(0), features.Stock_Quantity)
          /\ FLeq(features.Stock_Quantity, FromInt(1))
          /\ FLeq(FromInt(0), features.Sales_Volume)
          /\ FLeq(features.Sales_Volume, FromInt(1))
    /\ pool # <<>> =>
          /\ FLeq(FromInt(0), pool.features.Stock_Quantity)
          /\ FLeq(pool.features.Stock_Quantity, FromInt(1))
          /\ FLeq(FromInt(0), pool.features.Sales_Volume)
          /\ FLeq(pool.features.Sales_Volume, FromInt(1))
    /\ pc = "raised" => typical_values.exc # "None"

\* a prediction from the greatest stock quantity and the typical sales volume
C10_Witness ==
    /\ pc = "done"
    /\ pool # <<>>
    /\ stock_quantity = 141
    /\ pool.features.Stock_Quantity = FromInt(1)
    /\ entered.sales = -1
    /\ FLess(FromInt(0), pool.features.Sales_Volume)
    /\ FLess(pool.features.Sales_Volume, FromInt(1))

(***************************************************************************)
(* Claims about normalize and denormalize, checked under SpecCodec.        *)
(***************************************************************************)
NativeTrip == <<"native", "normalize", "denormalize">>
NormalizedTrip == <<"normalized", "denormalize", "normalize">>

\* x <= y + 2^-p
Within(x, y, p) == FLeq(x, FAdd(y, IncAt(FromInt(0), p)))

\* C6 as stated: normalize(denormalize(v)) = v within 1e-9 for every
\* normalized v in [0,1], and denormalize(normalize(x)) = x for every native
\* x in [min, max], in both ranges.  (2^-29 is above 1e-9.)
C6_AsStated ==
    /\ codec.path = NormalizedTrip =>
          Within(codec.v, codec.v0, 29) /\ Within(codec.v0, codec.v, 29)
    /\ codec.path = NativeTrip => codec.n = codec.n0

\* C6 amended: denormalize truncates, so d = denormalize(v) is an integer
\* of [min, max] with normalize(d) <= v < normalize(d + 1) within 1e-9, and
\* normalize(denormalize(v)) = v when v is normalize(x) of a native x that
\* survives the trip; denormalize(normalize(x)) = x for every native x of
\* both ranges but x = 123 of the Stock_Quantity range [7,141], which comes
\* back as 122.  (2^-30 is below 1e-9.)
C6_RoundTrip ==
    LET lo == min_of(codec.rng)
        hi == max_of(codec.rng)
        lost == codec.rng = "Stock_Quantity" /\ codec.n0 = 123
    IN  /\ codec.path = NativeTrip =>
              codec.n = IF lost THEN 122 ELSE codec.n0
        /\ codec.path = NormalizedTrip =>
              /\ codec.n \in lo..hi
              /\ codec.v = normalize(codec.n, lo, hi)
              /\ Within(codec.v, codec.v0, 30)
              /\ FLess(codec.v0, FAdd(normalize(codec.n + 1, lo, hi),
                                      IncAt(FromInt(0), 30)))
              /\ (\E x \in lo..hi : codec.v0 = normalize(x, lo, hi)
                                     /\ ~(codec.rng = "Stock_Quantity" /\ x = 123)) =>
                     codec.v = codec.v0

\* a normalized 1/2 of the Sales_Volume range has been denormalized to 73
\* and normalized back to 59/119
C6_Witness ==
    /\ codec.path = NormalizedTrip
    /\ codec.rng = "Sales_Volume"
    /\ codec.v0 = ToFloat(1, 2)
    /\ codec.n = 73
    /\ codec.v = ToFloat(59, 119)

=============================================================================
